---------------------------- MODULE Spec2Model ----------------------------
(***************************************************************************)
(* Model of mastercraft_web/demo_server.py: the binary STL decoder         *)
(* (STLUtils.is_binary / read_triangle / read_stl), the volume estimator   *)
(* (signed_volume_of_triangle / calculate_volume) and the /calculate       *)
(* request handler with its uploaded file.                                 *)
(*                                                                         *)
(* Bytes are integers 0..255, a stream is a sequence of bytes.  A Python   *)
(* float is the record [neg, m, e] of its sign, odd mantissa and exponent, *)
(* and float arithmetic rounds as IEEE-754 binary64 does.                  *)
(***************************************************************************)
EXTENDS Integers, Sequences, FiniteSets, TLC

VARIABLES
    byteorder,   \* sys.byteorder of the platform: what "@I" means
    file,        \* decoder spec: the bytes of the file handed to read_stl
    utils,       \* decoder spec: STLUtils instance -> its self.triangles
    log,         \* decoder spec: one record per finished read_stl call
    mesh,        \* estimator spec: self.triangles of the estimating instance
    density,     \* estimator spec: material_mass as written, in hundredths
    solid,       \* estimator spec: what is known of the solid the mesh bounds
    last,        \* estimator spec: what the last step did, with its result
    fs,          \* server spec: the upload folder, its names and its inodes
    req          \* server spec: request id -> the handler's local state

vars == <<byteorder, file, utils, log, mesh, density, solid, last, fs, req>>

-----------------------------------------------------------------------------
(* Bounds of the model.                                                    *)

\* records of 50 bytes a generated stream may hold in full
MaxRecords == 2
\* largest triangle count a generated stream declares
MaxDeclared == 3
\* read_stl calls made in one behaviour of the decoder specification
MaxCalls == 2
\* steps (estimates and mesh transformations) in one behaviour of the
\* estimator specification
MaxSteps == 3

-----------------------------------------------------------------------------
(* Sizes of the binary layout, as the code reads it.                       *)

HeaderLen == 80
CountLen == 4
VecLen == 12
AttrLen == 2
RecordLen == VecLen + VecLen + VecLen + VecLen + AttrLen

Take(s, n) == SubSeq(s, 1, IF n < Len(s) THEN n ELSE Len(s))

\* f.read(n) at offset pos (0-based) of content: up to n bytes, fewer at the end
FRead(content, pos, n) ==
    IF pos >= Len(content) THEN << >>
    ELSE SubSeq(content, pos + 1, IF pos + n < Len(content) THEN pos + n ELSE Len(content))

RECURSIVE Pow2(_)
Pow2(k) == IF k <= 0 THEN 1 ELSE 2 * Pow2(k - 1)


-----------------------------------------------------------------------------
(* bytes.decode(errors='replace'): UTF-8 to code points, every maximal     *)
(* invalid subpart replaced by U+FFFD.                                     *)

Replacement == 65533

IsCont(b) == b >= 128 /\ b <= 191

\* the byte at 1-based index i, or -1 past the end
At(bs, i) == IF i >= 1 /\ i <= Len(bs) THEN bs[i] ELSE -1

\* range allowed for the second byte of a 3- or 4-byte sequence led by b
SecondLo(b) == IF b = 224 THEN 160 ELSE IF b = 240 THEN 144 ELSE 128
SecondHi(b) == IF b = 237 THEN 159 ELSE IF b = 244 THEN 143 ELSE 191
SecondOk(b, c) == c >= SecondLo(b) /\ c <= SecondHi(b)

\* <<code point, bytes consumed>> of the sequence starting at index i
Utf8Step(bs, i) ==
    LET b == bs[i]
        c1 == At(bs, i + 1)
        c2 == At(bs, i + 2)
        c3 == At(bs, i + 3)
    IN  IF b < 128 THEN <<b, 1>>
        ELSE IF b >= 194 /\ b <= 223 THEN
            IF IsCont(c1) THEN <<(b - 192) * 64 + (c1 - 128), 2>>
            ELSE <<Replacement, 1>>
        ELSE IF b >= 224 /\ b <= 239 THEN
            IF ~SecondOk(b, c1) THEN <<Replacement, 1>>
            ELSE IF ~IsCont(c2) THEN <<Replacement, 2>>
            ELSE <<(b - 224) * 4096 + (c1 - 128) * 64 + (c2 - 128), 3>>
        ELSE IF b >= 240 /\ b <= 244 THEN
            IF ~SecondOk(b, c1) THEN <<Replacement, 1>>
            ELSE IF ~IsCont(c2) THEN <<Replacement, 2>>
            ELSE IF ~IsCont(c3) THEN <<Replacement, 3>>
            ELSE <<(b - 240) * 262144 + (c1 - 128) * 4096
                     + (c2 - 128) * 64 + (c3 - 128), 4>>
        ELSE <<Replacement, 1>>

RECURSIVE Utf8From(_, _)
Utf8From(bs, i) ==
    IF i > Len(bs) THEN << >>
    ELSE LET st == Utf8Step(bs, i) IN <<st[1]>> \o Utf8From(bs, i + st[2])

\* errors='ignore' instead of 'replace': invalid bytes vanish from the text
RECURSIVE Utf8FromIgnore(_, _)
Utf8FromIgnore(bs, i) ==
    IF i > Len(bs) THEN << >>
    ELSE LET st == Utf8Step(bs, i)
         IN (IF st[1] = Replacement THEN << >> ELSE <<st[1]>>)
                \o Utf8FromIgnore(bs, i + st[2])

DecodeIgnore(bs) == Utf8FromIgnore(bs, 1)

Decode(bs) == Utf8From(bs, 1)

\* the text 'solid'
Solid == <<115, 111, 108, 105, 100>>

StartsWith(text, prefix) ==
    Len(text) >= Len(prefix) /\ SubSeq(text, 1, Len(prefix)) = prefix

\* STLUtils.is_binary on a file that exists with this content
is_binary(content) ==
    LET header == Decode(FRead(content, 0, HeaderLen))
    IN  ~StartsWith(header, Solid)

-----------------------------------------------------------------------------
(* Python floats (IEEE-754 binary64) and their arithmetic, each operation  *)
(* rounded to the nearest float, ties to even.  A mantissa of 53 bits does *)
(* not fit the integers of the checker, so natural numbers of any size are *)
(* kept as limbs of 15 bits, least significant first, no leading zero     *)
(* limb; << >> is zero.  Exponent overflow and subnormal results are not   *)
(* modelled: the values computed stay far from both.                       *)

Base == 32768
LimbBits == 15

Limb(a, i) == IF i <= Len(a) THEN a[i] ELSE 0

RECURSIVE BTrim(_)
BTrim(a) == IF a = << >> THEN a
            ELSE IF a[Len(a)] = 0 THEN BTrim(SubSeq(a, 1, Len(a) - 1)) ELSE a

RECURSIVE BNat(_)
BNat(n) == IF n = 0 THEN << >> ELSE <<n % Base>> \o BNat(n \div Base)

RECURSIVE BAddFrom(_, _, _, _)
BAddFrom(a, b, i, carry) ==
    IF i > Len(a) /\ i > Len(b) THEN (IF carry = 0 THEN << >> ELSE <<carry>>)
    ELSE LET s == Limb(a, i) + Limb(b, i) + carry
         IN  <<s % Base>> \o BAddFrom(a, b, i + 1, s \div Base)

BAdd(a, b) == BAddFrom(a, b, 1, 0)

\* a - b for a >= b
RECURSIVE BSubFrom(_, _, _, _)
BSubFrom(a, b, i, borrow) ==
    IF i > Len(a) THEN << >>
    ELSE LET s == a[i] - Limb(b, i) - borrow
         IN  <<IF s < 0 THEN s + Base ELSE s>>
                \o BSubFrom(a, b, i + 1, IF s < 0 THEN 1 ELSE 0)

BSub(a, b) == BTrim(BSubFrom(a, b, 1, 0))

\* -1, 0, 1 as a < b, a = b, a > b
RECURSIVE BCmpFrom(_, _, _)
BCmpFrom(a, b, i) ==
    IF i = 0 THEN 0
    ELSE IF a[i] < b[i] THEN -1
    ELSE IF a[i] > b[i] THEN 1
    ELSE BCmpFrom(a, b, i - 1)

BCmp(a, b) ==
    IF Len(a) < Len(b) THEN -1
    ELSE IF Len(a) > Len(b) THEN 1
    ELSE BCmpFrom(a, b, Len(a))

\* a * k for a limb k
RECURSIVE BMulSmallFrom(_, _, _, _)
BMulSmallFrom(a, k, i, carry) ==
    IF i > Len(a) THEN (IF carry = 0 THEN << >> ELSE <<carry>>)
    ELSE LET s == a[i] * k + carry
         IN  <<s % Base>> \o BMulSmallFrom(a, k, i + 1, s \div Base)

BMulSmall(a, k) == IF k = 0 THEN << >> ELSE BMulSmallFrom(a, k, 1, 0)

BShlLimbs(a, n) == IF a = << >> THEN a ELSE [i \in 1..n |-> 0] \o a

RECURSIVE BMulFrom(_, _, _)
BMulFrom(a, b, i) ==
    IF i > Len(b) THEN << >>
    ELSE BAdd(BShlLimbs(BMulSmall(a, b[i]), i - 1), BMulFrom(a, b, i + 1))

BMul(a, b) == BMulFrom(a, b, 1)

\* <<quotient, remainder>> of a by a limb k, from the top limb down
RECURSIVE BDivSmallFrom(_, _, _, _)
BDivSmallFrom(a, k, i, rem) ==
    IF i = 0 THEN <<<< >>, rem>>
    ELSE LET cur == rem * Base + a[i]
             rest == BDivSmallFrom(a, k, i - 1, cur % k)
         IN  <<rest[1] \o <<cur \div k>>, rest[2]>>

BDivSmall(a, k) ==
    LET r == BDivSmallFrom(a, k, Len(a), 0) IN <<BTrim(r[1]), r[2]>>

BShl(a, bits) == BShlLimbs(BMulSmall(a, Pow2(bits % LimbBits)), bits \div LimbBits)

BShr(a, bits) ==
    LET drop == bits \div LimbBits
    IN  IF drop >= Len(a) THEN << >>
        ELSE BDivSmall(SubSeq(a, drop + 1, Len(a)), Pow2(bits % LimbBits))[1]

RECURSIVE BitLen(_)
BitLen(n) == IF n = 0 THEN 0 ELSE 1 + BitLen(n \div 2)

BBitLen(a) == IF a = << >> THEN 0 ELSE LimbBits * (Len(a) - 1) + BitLen(a[Len(a)])

\* bit k (0-based) of a
BBit(a, k) == (Limb(a, (k \div LimbBits) + 1) \div Pow2(k % LimbBits)) % 2

\* the low bits of a, below bit k, are all zero
BLowZero(a, k) == BShl(BShr(a, k), k) = a

RECURSIVE TrailingZeros(_)
TrailingZeros(n) == IF n % 2 = 1 THEN 0 ELSE 1 + TrailingZeros(n \div 2)

RECURSIVE BTrailingZeros(_, _)
BTrailingZeros(a, i) ==
    IF a[i] = 0 THEN LimbBits + BTrailingZeros(a, i + 1) ELSE TrailingZeros(a[i])

\* a float: (-1)^neg * m * 2^e with m odd, or zero; IEEE-754 binary64 keeps
\* 53 bits of m.  Zero has one form (-0.0 == 0.0 in Python).
Precision == 53

DZero == [neg |-> FALSE, m |-> << >>, e |-> 0]

Canon(neg, m, e) ==
    IF m = << >> THEN DZero
    ELSE LET tz == BTrailingZeros(m, 1)
         IN  [neg |-> neg, m |-> BShr(m, tz), e |-> e + tz]

\* n * 2^e (and, with sticky, a nonzero part below it) rounded to the
\* nearest float, ties to even
Round(neg, n, e, sticky) ==
    LET len == BBitLen(n)
        s == len - Precision
    IN  IF s <= 0 THEN Canon(neg, n, e)
        ELSE LET q == BShr(n, s)
                 half == BBit(n, s - 1) = 1
                 rest == sticky \/ ~BLowZero(n, s - 1)
                 up == half /\ (rest \/ BBit(q, 0) = 1)
             IN  Canon(neg, IF up THEN BAdd(q, <<1>>) ELSE q, e + s)

DInt(n) == Canon(n < 0, BNat(IF n < 0 THEN 0 - n ELSE n), 0)

DNeg(x) == IF x.m = << >> THEN x ELSE [x EXCEPT !.neg = ~x.neg]

DMul(x, y) == Round(x.neg # y.neg, BMul(x.m, y.m), x.e + y.e, FALSE)

DAdd(x, y) ==
    LET lo == IF x.e < y.e THEN x.e ELSE y.e
        xm == BShl(x.m, x.e - lo)
        ym == BShl(y.m, y.e - lo)
    IN  IF x.neg = y.neg THEN Round(x.neg, BAdd(xm, ym), lo, FALSE)
        ELSE IF BCmp(xm, ym) >= 0 THEN Round(x.neg, BSub(xm, ym), lo, FALSE)
        ELSE Round(y.neg, BSub(ym, xm), lo, FALSE)

DSub(x, y) == DAdd(x, DNeg(y))

\* x / y for a divisor whose odd part fits a limb
DDiv(x, y) ==
    LET k == Precision + 2 + BBitLen(y.m)
        qr == BDivSmall(BShl(x.m, k), y.m[1])
    IN  Round(x.neg # y.neg, qr[1], x.e - y.e - k, qr[2] # 0)

\* -1, 0, 1 as x < y, x = y, x > y
DSign(x) == IF x.m = << >> THEN 0 ELSE IF x.neg THEN -1 ELSE 1
DCmp(x, y) == DSign(DSub(x, y))

-----------------------------------------------------------------------------
(* struct.unpack                                                           *)

\* one little-endian IEEE-754 binary32 as the float of the same value: sign,
\* 8-bit exponent, 23-bit fraction; an infinity is the zero mantissa with
\* exponent 1, a NaN with exponent 2
UnpackFloat(b) ==
    LET sign == b[4] \div 128
        exp  == (b[4] % 128) * 2 + (b[3] \div 128)
        man  == (b[3] % 128) * 65536 + b[2] * 256 + b[1]
    IN  IF exp = 255
        THEN [neg |-> sign = 1 /\ man = 0, m |-> << >>, e |-> IF man = 0 THEN 1 ELSE 2]
        ELSE IF exp = 0 THEN Canon(sign = 1, BNat(man), -149)
        ELSE Canon(sign = 1, BNat(8388608 + man), exp - 150)

\* struct.unpack("<3f", buf) on a buffer of exactly 12 bytes
Unpack3f(buf) ==
    <<UnpackFloat(SubSeq(buf, 1, 4)),
      UnpackFloat(SubSeq(buf, 5, 8)),
      UnpackFloat(SubSeq(buf, 9, 12))>>

\* struct.unpack("@I", buf)[0] on a buffer of exactly 4 bytes
UnpackI(buf, order) ==
    IF order = "little"
    THEN buf[1] + 256 * buf[2] + 65536 * buf[3] + 16777216 * buf[4]
    ELSE buf[4] + 256 * buf[3] + 65536 * buf[2] + 16777216 * buf[1]

\* what struct.unpack raises on a buffer of the wrong size
StructError(n) == [kind |-> "struct.error", need |-> n]
Ok == [kind |-> "ok", need |-> 0]

-----------------------------------------------------------------------------
(* STLUtils.read_triangle and STLUtils.read_stl                            *)

\* the normal is returned in the place of the first vertex
read_triangle_normal(content, pos) ==
    LET n  == FRead(content, pos, VecLen)
        b1 == FRead(content, pos + Len(n), VecLen)
        b2 == FRead(content, pos + Len(n) + Len(b1), VecLen)
        b3 == FRead(content, pos + Len(n) + Len(b1) + Len(b2), VecLen)
        at == FRead(content, pos + Len(n) + Len(b1) + Len(b2) + Len(b3), AttrLen)
    IN  IF Len(n) # VecLen \/ Len(b1) # VecLen \/ Len(b2) # VecLen \/ Len(b3) # VecLen
        THEN [err |-> StructError(VecLen), tri |-> << >>, pos |-> pos]
        ELSE [err |-> Ok, tri |-> <<Unpack3f(n), Unpack3f(b2), Unpack3f(b3)>>,
              pos |-> pos + (VecLen + VecLen + VecLen + VecLen) + Len(at)]

\* read_triangle(f) with f at offset pos: the triangle and the new offset,
\* or the struct.error of the first unpack whose read came back short
read_triangle(content, pos) ==
    LET n  == FRead(content, pos, VecLen)
        b1 == FRead(content, pos + Len(n), VecLen)
        b2 == FRead(content, pos + Len(n) + Len(b1), VecLen)
        b3 == FRead(content, pos + Len(n) + Len(b1) + Len(b2), VecLen)
        at == FRead(content, pos + Len(n) + Len(b1) + Len(b2) + Len(b3), AttrLen)
    IN  IF Len(n) # VecLen \/ Len(b1) # VecLen \/ Len(b2) # VecLen \/ Len(b3) # VecLen
        THEN [err |-> StructError(VecLen), tri |-> << >>, pos |-> pos]
        ELSE [err |-> Ok, tri |-> <<Unpack3f(b1), Unpack3f(b2), Unpack3f(b3)>>,
              pos |-> pos + (VecLen + VecLen + VecLen + VecLen) + Len(at)]

\* the triangles are collected in a list of the call's own and stored in
\* self.triangles only when the loop has run to its end
RECURSIVE ReadLoopFrom(_, _, _, _, _)
ReadLoopFrom(orig, tris, content, pos, left) ==
    IF left = 0 THEN [triangles |-> tris, outcome |-> Ok]
    ELSE LET r == read_triangle(content, pos)
         IN  IF r.err.kind # "ok"
             THEN [triangles |-> orig, outcome |-> r.err]
             ELSE ReadLoopFrom(orig, Append(tris, r.tri), content, r.pos, left - 1)

ReadLoopLocal(tris, content, pos, left) == ReadLoopFrom(tris, tris, content, pos, left)

\* the loop of read_stl: left triangles still to read, tris = self.triangles
RECURSIVE ReadLoop(_, _, _, _)
ReadLoop(tris, content, pos, left) ==
    IF left = 0 THEN [triangles |-> tris, outcome |-> Ok]
    ELSE LET r == read_triangle(content, pos)
         IN  IF r.err.kind # "ok"
             THEN [triangles |-> tris, outcome |-> r.err]
             ELSE ReadLoop(Append(tris, r.tri), content, r.pos, left - 1)

\* the binary branch of read_stl
ReadBinary(tris, content, order) ==
    LET cnt == FRead(content, HeaderLen, CountLen)
    IN  IF Len(cnt) # CountLen
        THEN [triangles |-> tris, outcome |-> StructError(CountLen)]
        ELSE ReadLoop(tris, content, HeaderLen + CountLen, UnpackI(cnt, order))

\* read_stl(file) on an instance whose self.triangles is tris
read_stl(tris, content, order) ==
    IF is_binary(content)
    THEN ReadBinary(tris, content, order) @@ [branch |-> "binary"]
    ELSE [triangles |-> tris, outcome |-> Ok, branch |-> "text"]

-----------------------------------------------------------------------------
(* The streams the decoder is run on: an 80-byte header, a count field in  *)
(* the platform's byte order, records of 50 bytes, cut at any length.      *)

RECURSIVE Log2Floor(_)
Log2Floor(a) == IF a <= 1 THEN 0 ELSE 1 + Log2Floor(a \div 2)

\* struct.pack("<f", v) for an integer v of magnitude below 2^24
PackFloat(v) ==
    IF v = 0 THEN <<0, 0, 0, 0>>
    ELSE LET a == IF v < 0 THEN 0 - v ELSE v
             p == Log2Floor(a)
             e == 127 + p
             m == (a - Pow2(p)) * Pow2(23 - p)
         IN  <<m % 256, (m \div 256) % 256, (e % 2) * 128 + (m \div 65536),
               (IF v < 0 THEN 128 ELSE 0) + (e \div 2)>>

Pack3f(pt) == PackFloat(pt[1]) \o PackFloat(pt[2]) \o PackFloat(pt[3])

\* struct.pack("@I", n) for n below 2^24
PackI(n, order) ==
    IF order = "little"
    THEN <<n % 256, (n \div 256) % 256, (n \div 65536) % 256, 0>>
    ELSE <<0, (n \div 65536) % 256, (n \div 256) % 256, n % 256>>

Zeros(n) == [i \in 1..n |-> 0]

\* the leading bytes of the headers tried
HeaderPrefixes ==
    << << >>,                                        \* all zero
       <<115, 111, 108, 105, 100, 32, 120>>,         \* 'solid x'
       <<115, 111, 108, 105>>,                       \* 'soli', then zero
       <<255, 115, 111, 108, 105, 100>>,             \* invalid byte, 'solid'
       <<115, 111, 108, 105, 100, 255, 226, 130>>,   \* 'solid', invalid bytes
       <<83, 111, 108, 105, 100>>,                   \* 'Solid'
       <<226, 130, 172, 115, 111, 108, 105, 100>> >> \* euro sign, 'solid'

\* header h: its prefix, zeros, and a last byte that opens a 2-byte sequence
Header(h) ==
    HeaderPrefixes[h] \o Zeros(HeaderLen - 1 - Len(HeaderPrefixes[h])) \o <<195>>

\* vertex v (1..3) of record i (0-based): nine coordinates no record shares,
\* negative in the odd records
FixVertex(i, v) ==
    LET base == 9 * i + 3 * (v - 1)
        sg   == IF i % 2 = 1 THEN -1 ELSE 1
    IN  <<sg * (base + 1), sg * (base + 2), sg * (base + 3)>>

\* the point of three integer coordinates, as floats
Point(v) == <<DInt(v[1]), DInt(v[2]), DInt(v[3])>>

FixTriangle(i) == <<Point(FixVertex(i, 1)), Point(FixVertex(i, 2)), Point(FixVertex(i, 3))>>

FixNormal(i) == <<100 + i, 0, 0 - 1>>

FixRecord(i) ==
    Pack3f(FixNormal(i)) \o Pack3f(FixVertex(i, 1)) \o Pack3f(FixVertex(i, 2))
        \o Pack3f(FixVertex(i, 3)) \o <<i + 1, 7>>

RECURSIVE FixRecords(_, _)
FixRecords(i, n) == IF i >= n THEN << >> ELSE FixRecord(i) \o FixRecords(i + 1, n)

\* the triangles of records 0 .. n-1, in stream order
RECURSIVE FixTriangles(_, _)
FixTriangles(i, n) ==
    IF i >= n THEN << >> ELSE <<FixTriangle(i)>> \o FixTriangles(i + 1, n)

\* a stream with header h declaring d triangles and holding r full records
Stream(h, d, r, order) == Header(h) \o PackI(d, order) \o FixRecords(0, r)

\* the longest stream generated: one record more than MaxRecords, so that a
\* cut may leave bytes after the declared end
MaxStreamLen == HeaderLen + CountLen + RecordLen * MaxRecords + VecLen

DeclaredEnd(d) == HeaderLen + CountLen + RecordLen * d

-----------------------------------------------------------------------------
(* Decoder specification: one file, two STLUtils instances, read_stl       *)
(* called on either.                                                       *)

Instances == {1, 2}


IdleEstimator ==
    /\ mesh = << >>
    /\ density = 0
    /\ solid = << >>
    /\ last = << >>

IdleServer ==
    /\ fs = << >>
    /\ req = << >>

IdleDecoder ==
    /\ file = << >>
    /\ utils = << >>
    /\ log = << >>

InitDecode ==
    /\ byteorder \in {"little", "big"}
    /\ \E h \in 1..Len(HeaderPrefixes), d \in 0..MaxDeclared, k \in 0..MaxStreamLen :
          \* every count under the zero header, one count under the others
          /\ h = 1 \/ d = MaxRecords
          /\ file = Take(Stream(h, d, MaxRecords + 1, byteorder), k)
    /\ utils = [i \in Instances |-> << >>]     \* STLUtils.__init__
    /\ log = << >>
    /\ IdleEstimator
    /\ IdleServer

\* stl_utils.read_stl(file) on instance i, run to its return or its raise
ReadStl(i) ==
    /\ Len(log) < MaxCalls
    /\ LET r == read_stl(utils[i], file, byteorder)
       IN  /\ utils' = [utils EXCEPT ![i] = r.triangles]
           /\ log' = Append(log, [inst |-> i, before |-> utils[i],
                                  after |-> r.triangles, outcome |-> r.outcome,
                                  branch |-> r.branch])
    /\ UNCHANGED <<byteorder, file, mesh, density, solid, last, fs, req>>

NextDecode == \E i \in Instances : ReadStl(i)

SpecDecode == InitDecode /\ [][NextDecode]_vars

-----------------------------------------------------------------------------
(* Properties of the decoder, stated on the raw bytes of the file.         *)

\* the file's first five bytes are the ASCII bytes of 'solid'
RawSolid == StartsWith(file, Solid)

\* the file holds the count field in full
HasCount == Len(file) >= HeaderLen + CountLen

\* the triangle count the file declares (HasCount)
Declared == UnpackI(SubSeq(file, HeaderLen + 1, HeaderLen + CountLen), byteorder)

\* complete 50-byte records after the count field (HasCount)
CompleteRecords == (Len(file) - HeaderLen - CountLen) \div RecordLen

\* records whose normal and three vertices are all present (HasCount)
VertexCompleteRecords == (Len(file) - HeaderLen - CountLen + AttrLen) \div RecordLen

\* the file is a binary stream cut strictly before its declared end
Truncated == ~RawSolid /\ (~HasCount \/ Len(file) < DeclaredEnd(Declared))

\* the vector stored at 0-based byte offset off
VecAt(off) == Unpack3f(SubSeq(file, off + 1, off + VecLen))

\* triangle i (0-based) as the layout places it
TriangleAt(i) ==
    LET rec == HeaderLen + CountLen + RecordLen * i
    IN  <<VecAt(rec + 12), VecAt(rec + 24), VecAt(rec + 36)>>

TrianglesAt(n) == [i \in 1..n |-> TriangleAt(i - 1)]

Calls == 1..Len(log)
Failed(c) == c.outcome.kind # "ok"

\* C1: read_stl on a valid binary stream cut at any length strictly before
\* its declared end 84+50n ends in a decoding failure, never in a normal
\* return.
C1_TruncationFails ==
    \A j \in Calls : Truncated => Failed(log[j])

C7_Deterministic ==
    \A a, b \in Calls : log[a].after = log[b].after

\* C8: a stream is classified textual exactly when it begins with 'solid'
\* (its first 80 bytes decoded with replacement do so exactly when its raw
\* bytes do); read_stl on a textual stream returns without error and adds no
\* triangle, so the mesh of a fresh instance stays empty, whatever follows
\* the header; every other stream goes down the binary branch, which reads
\* the count field at offset 80 and fails when it is not there.
C8_TextualClassification ==
    \A j \in Calls :
        /\ (log[j].branch = "text") <=> RawSolid
        /\ (log[j].branch = "binary") <=> ~RawSolid
        /\ RawSolid => /\ ~Failed(log[j])
                       /\ log[j].after = log[j].before
                       /\ (log[j].before = << >> => Len(log[j].after) = 0)
        /\ (~RawSolid /\ ~HasCount) => log[j].outcome = StructError(CountLen)
        /\ (~RawSolid /\ HasCount /\ Failed(log[j])) => log[j].outcome.need # CountLen

\* a textual stream with invalid bytes after the marker and records behind
\* the header was read on a fresh instance
C8_Witness ==
    \E j \in Calls :
        /\ log[j].branch = "text"
        /\ Len(file) > HeaderLen + CountLen + RecordLen
        /\ file[6] = 255
        /\ log[j].before = << >>
        /\ log[j].after = << >>

\* C10: on a binary stream that declares n triangles and holds at least
\* 84+50n bytes, read_stl returns normally having appended exactly n
\* triangles, triangle i being the vectors at offsets 84+50i+12, +24 and +36
\* (the values the records were packed from), in stream order; normals,
\* attribute fields and the bytes after record n leave no trace.
C10_FullDecode ==
    \A j \in Calls :
        (~RawSolid /\ HasCount /\ Len(file) >= DeclaredEnd(Declared))
            => /\ ~Failed(log[j])
               /\ log[j].after = log[j].before \o TrianglesAt(Declared)
               /\ TrianglesAt(Declared) = FixTriangles(0, Declared)
               /\ (log[j].before = << >> => Len(log[j].after) = Declared)

\* a fresh instance decoded two triangles from a stream with bytes after
\* its second record
C10_Witness ==
    \E j \in Calls :
        /\ ~RawSolid /\ HasCount /\ Declared = 2
        /\ Len(file) > DeclaredEnd(Declared)
        /\ log[j].before = << >>
        /\ log[j].after = <<FixTriangle(0), FixTriangle(1)>>

-----------------------------------------------------------------------------
(* STLUtils.signed_volume_of_triangle and STLUtils.calculate_volume        *)

\* a decimal literal with two places, such as 1.25: the float nearest to it
Literal(hundredths) == DDiv(DInt(hundredths), DInt(100))

\* the sign of the v312 term is inverted
signed_volume_sign_slip(p1, p2, p3) ==
    LET v321 == DMul(DMul(p3[1], p2[2]), p1[3])
        v231 == DMul(DMul(p2[1], p3[2]), p1[3])
        v312 == DMul(DMul(p3[1], p1[2]), p2[3])
        v132 == DMul(DMul(p1[1], p3[2]), p2[3])
        v213 == DMul(DMul(p2[1], p1[2]), p3[3])
        v123 == DMul(DMul(p1[1], p2[2]), p3[3])
    IN  DMul(DDiv(DInt(1), DInt(6)),
             DAdd(DSub(DSub(DSub(DAdd(DNeg(v321), v231), v312), v132), v213), v123))

signed_volume_of_triangle(p1, p2, p3) ==
    LET v321 == DMul(DMul(p3[1], p2[2]), p1[3])
        v231 == DMul(DMul(p2[1], p3[2]), p1[3])
        v312 == DMul(DMul(p3[1], p1[2]), p2[3])
        v132 == DMul(DMul(p1[1], p3[2]), p2[3])
        v213 == DMul(DMul(p2[1], p1[2]), p3[3])
        v123 == DMul(DMul(p1[1], p2[2]), p3[3])
    IN  DMul(DDiv(DInt(1), DInt(6)),
             DAdd(DSub(DSub(DAdd(DAdd(DNeg(v321), v231), v312), v132), v213), v123))

\* the generator of calculate_volume: one signed volume per triangle
SignedVolumes(triangles) ==
    [i \in 1..Len(triangles) |->
        signed_volume_of_triangle(triangles[i][1], triangles[i][2], triangles[i][3])]

\* Python's sum(): left to right from 0
RECURSIVE SumFrom(_, _, _)
SumFrom(xs, i, acc) ==
    IF i > Len(xs) THEN acc ELSE SumFrom(xs, i + 1, DAdd(acc, xs[i]))

DAbs(x) == [x EXCEPT !.neg = FALSE]

\* the mass is computed from the magnitude of the density
calculate_volume_abs(triangles, material_mass) ==
    LET total_volume == DDiv(SumFrom(SignedVolumes(triangles), 1, DZero), DInt(1000))
        total_mass == DMul(total_volume, DAbs(material_mass))
    IN  [raised |-> "", total_volume |-> total_volume, total_mass |-> total_mass]

\* the sign of the sum is normalised away
calculate_volume_unsigned(triangles, material_mass) ==
    LET total_volume == DDiv(DAbs(SumFrom(SignedVolumes(triangles), 1, DZero)), DInt(1000))
        total_mass == DMul(total_volume, material_mass)
    IN  [raised |-> "", total_volume |-> total_volume, total_mass |-> total_mass]

\* calculate_volume(material_mass) on an instance whose self.triangles is
\* triangles: it has no raise, so raised is always empty
calculate_volume(triangles, material_mass) ==
    LET total_volume == DDiv(SumFrom(SignedVolumes(triangles), 1, DZero), DInt(1000))
        total_mass == DMul(total_volume, material_mass)
    IN  [raised |-> "", total_volume |-> total_volume, total_mass |-> total_mass]

-----------------------------------------------------------------------------
(* Estimator specification: a mesh and a density, calculate_volume, and    *)
(* the transformations of the mesh under which its result is compared.     *)

\* a quadrilateral face a, b, c, d as two triangles of the same winding
Quad(a, b, c, d) ==
    << <<Point(a), Point(b), Point(c)>>, <<Point(a), Point(c), Point(d)>> >>

\* the axis-aligned cube of side s with a corner at the origin, twelve
\* triangles wound counter-clockwise seen from outside
Cube(s) ==
    Quad(<<0, 0, 0>>, <<0, s, 0>>, <<s, s, 0>>, <<s, 0, 0>>)
    \o Quad(<<0, 0, s>>, <<s, 0, s>>, <<s, s, s>>, <<0, s, s>>)
    \o Quad(<<0, 0, 0>>, <<s, 0, 0>>, <<s, 0, s>>, <<0, 0, s>>)
    \o Quad(<<0, s, 0>>, <<0, s, s>>, <<s, s, s>>, <<s, s, 0>>)
    \o Quad(<<0, 0, 0>>, <<0, 0, s>>, <<0, s, s>>, <<0, s, 0>>)
    \o Quad(<<s, 0, 0>>, <<s, s, 0>>, <<s, s, s>>, <<s, 0, s>>)

\* the tetrahedron on the origin and the points a, b, c of the three axes
Tetra(a, b, c) ==
    << <<Point(<<0, 0, 0>>), Point(<<0, b, 0>>), Point(<<a, 0, 0>>)>>,
       <<Point(<<0, 0, 0>>), Point(<<a, 0, 0>>), Point(<<0, 0, c>>)>>,
       <<Point(<<0, 0, 0>>), Point(<<0, 0, c>>), Point(<<0, b, 0>>)>>,
       <<Point(<<a, 0, 0>>), Point(<<0, b, 0>>), Point(<<0, 0, c>>)>> >>

\* one triangle as read_triangle decodes it from the float32 values of
\* (0.1, 0.5, 0.8), (0.7, 0.7, 0.7), (0.8, 0.3, 0.6)
Tenths ==
    << << Unpack3f(<<205, 204, 204, 61, 0, 0, 0, 63, 205, 204, 76, 63>>),
          Unpack3f(<<51, 51, 51, 63, 51, 51, 51, 63, 51, 51, 51, 63>>),
          Unpack3f(<<205, 204, 76, 63, 154, 153, 153, 62, 154, 153, 25, 63>>) >> >>

\* the meshes tried, with what is known of each: closed and outward wound
\* or not, the volume it encloses in mm^3, integer coordinates or not
Meshes ==
    { [name |-> "cube10", triangles |-> Cube(10), closed |-> TRUE, volume |-> 1000,
       integral |-> TRUE],
      [name |-> "cube3", triangles |-> Cube(3), closed |-> TRUE, volume |-> 27,
       integral |-> TRUE],
      [name |-> "tetra", triangles |-> Tetra(1, 2, 3), closed |-> TRUE, volume |-> 1,
       integral |-> TRUE],
      [name |-> "empty", triangles |-> << >>, closed |-> FALSE, volume |-> 0,
       integral |-> TRUE],
      [name |-> "open", triangles |-> <<FixTriangle(1), Cube(3)[1], Cube(3)[4]>>,
       closed |-> FALSE, volume |-> 0, integral |-> TRUE],
      [name |-> "tenths", triangles |-> Tenths, closed |-> FALSE, volume |-> 0,
       integral |-> FALSE] }

\* densities tried, in hundredths: entries of materials_dict, zero, and
\* values below zero
Densities == {-125, -1, 0, 104, 125, 1560}

Translations == { <<1, 0, 0>>, <<0, -2, 3>>, <<-5, -5, -5>>, <<7, 11, -13>> }

SwapVertices(tri, a, b) ==
    [v \in 1..3 |-> IF v = a THEN tri[b] ELSE IF v = b THEN tri[a] ELSE tri[v]]

RotateVertices(tri, k) == [v \in 1..3 |-> tri[((v - 1 + k) % 3) + 1]]

Shift(tri, t) == [v \in 1..3 |-> [a \in 1..3 |-> DAdd(tri[v][a], DInt(t[a]))]]

\* the largest magnitude among the coordinates of a mesh, zero if it has none
Extent(triangles) ==
    LET mags == {DAbs(triangles[i][v][a]) : i \in 1..Len(triangles), v \in 1..3, a \in 1..3}
    IN  IF mags = {} THEN DZero
        ELSE CHOOSE c \in mags : \A d \in mags : DCmp(d, c) <= 0

NoResult == [raised |-> "none", total_volume |-> DZero, total_mass |-> DZero]

InitVolume ==
    /\ \E m \in Meshes :
          /\ mesh = m.triangles
          /\ solid = [name |-> m.name, closed |-> m.closed, outward |-> m.closed,
                      volume |-> m.volume, integral |-> m.integral]
    /\ density \in Densities
    /\ last = [op |-> "new", n |-> 0, res |-> NoResult, parts |-> << >>,
               extent |-> DZero, prev |-> NoResult, prevParts |-> << >>,
               prevExtent |-> DZero, via |-> "new"]
    /\ byteorder = "little"
    /\ IdleDecoder
    /\ IdleServer

\* stl_utils.calculate_volume(material_mass)
CalculateVolume ==
    /\ last.n < MaxSteps
    /\ last.op # "calc"
    /\ last' = [op |-> "calc", n |-> last.n + 1,
                res |-> calculate_volume(mesh, Literal(density)),
                parts |-> SignedVolumes(mesh), extent |-> Extent(mesh),
                prev |-> last.res, prevParts |-> last.parts,
                prevExtent |-> last.extent, via |-> last.op]
    /\ UNCHANGED <<byteorder, file, utils, log, mesh, density, solid, fs, req>>

\* what a transformation leaves in last: the result obtained before it
Transformed(name) ==
    [op |-> name, n |-> last.n + 1, res |-> last.res, parts |-> last.parts,
     extent |-> last.extent, prev |-> NoResult, prevParts |-> << >>,
     prevExtent |-> DZero, via |-> "new"]

\* the winding of every triangle is reversed by swapping vertices a and b
ReverseWinding(a, b) ==
    /\ last.n < MaxSteps
    /\ last.op = "calc"
    /\ mesh' = [i \in 1..Len(mesh) |-> SwapVertices(mesh[i], a, b)]
    /\ solid' = [solid EXCEPT !.outward = FALSE]
    /\ last' = Transformed("reverse")
    /\ UNCHANGED <<byteorder, file, utils, log, density, fs, req>>

\* the vertices of every triangle are rotated cyclically by k places
RotateWinding(k) ==
    /\ last.n < MaxSteps
    /\ last.op = "calc"
    /\ mesh' = [i \in 1..Len(mesh) |-> RotateVertices(mesh[i], k)]
    /\ last' = Transformed("rotate")
    /\ UNCHANGED <<byteorder, file, utils, log, density, solid, fs, req>>

\* every vertex of an integer-coordinate mesh is moved by the vector t
TranslateMesh(t) ==
    /\ last.n < MaxSteps
    /\ last.op = "calc"
    /\ solid.integral
    /\ mesh' = [i \in 1..Len(mesh) |-> Shift(mesh[i], t)]
    /\ last' = Transformed("translate")
    /\ UNCHANGED <<byteorder, file, utils, log, density, solid, fs, req>>

NextVolume ==
    \/ CalculateVolume
    \/ \E a \in 1..2 : \E b \in (a + 1)..3 : ReverseWinding(a, b)
    \/ \E k \in 1..2 : RotateWinding(k)
    \/ \E t \in Translations : TranslateMesh(t)

SpecVolume == InitVolume /\ [][NextVolume]_vars

Estimated == last.op = "calc"

\* the sum of the signed volumes, before the division by 1000
Total(parts) == SumFrom(parts, 1, DZero)

TwoTo(k) == [neg |-> FALSE, m |-> <<1>>, e |-> k]

\* the rounding allowance for a sum over n triangles whose coordinates have
\* magnitude at most b: n^2 * b^3 * 2^-45.  Every product, addition and
\* multiplication by 1/6 errs by at most 2^-53 of its result, which
\* accumulates to less than 16 * n^2 * b^3 * 2^-53.
Tolerance(n, b) == DMul(DMul(DInt(n * n), DMul(DMul(b, b), b)), TwoTo(-45))

Larger(x, y) == IF DCmp(x, y) >= 0 THEN x ELSE y

\* x and y differ by at most tol
Near(x, y, tol) == DCmp(DAbs(DSub(x, y)), tol) <= 0

C6_ExactVolume ==
    (Estimated /\ solid.closed /\ solid.outward) =>
        /\ Total(last.parts) = DInt(solid.volume)
        /\ (last.via = "translate" => Total(last.parts) = Total(last.prevParts))
        /\ (solid.name = "cube10" /\ density = 125 =>
                /\ last.res.total_volume = DInt(1)
                /\ last.res.total_mass = Literal(125))

\* C6: for a closed, outward wound mesh of n triangles with integer
\* coordinates of magnitude at most b, the sum of the signed volumes is
\* within n^2 * b^3 * 2^-45 of the enclosed volume, and the sums before and
\* after an integer translation are within that allowance of each other,
\* taken at the larger of the two magnitudes; for the cube of side 10 with
\* coordinates of magnitude at most 10, calculate_volume(1.25) returns a
\* volume within 2^-40 of 1.0 and a mass within 2^-40 of 1.25.
C6_ClosedMeshVolume ==
    (Estimated /\ solid.closed /\ solid.outward) =>
        /\ Near(Total(last.parts), DInt(solid.volume),
                Tolerance(Len(mesh), last.extent))
        /\ (last.via = "translate" =>
                Near(Total(last.parts), Total(last.prevParts),
                     Tolerance(Len(mesh), Larger(last.extent, last.prevExtent))))
        /\ (solid.name = "cube10" /\ density = 125 /\ DCmp(last.extent, DInt(10)) <= 0 =>
                /\ Near(last.res.total_volume, DInt(1), TwoTo(-40))
                /\ Near(last.res.total_mass, Literal(125), TwoTo(-40)))

\* the cube of side 10 at the origin gives a volume just below 1.0, and
\* 1.0 after a translation
C6_Witness ==
    /\ Estimated
    /\ solid.name = "cube10"
    /\ solid.outward
    /\ density = 125
    /\ last.via = "translate"
    /\ last.prev.total_volume # DInt(1)
    /\ DCmp(last.prev.total_volume, DInt(1)) < 0
    /\ last.res.total_volume = DInt(1)
    /\ last.res.total_mass = Literal(125)

\* C9 as stated: for every mesh and density d >= 0, reversing the winding
\* of every triangle makes calculate_volume return exactly the negation of
\* the volume and of the mass, and a cyclic rotation of a triangle's
\* vertices leaves signed_volume_of_triangle unchanged.
C9_ExactNegation ==
    (Estimated /\ density >= 0) =>
        /\ (last.via = "reverse" =>
                /\ last.res.total_volume = DNeg(last.prev.total_volume)
                /\ last.res.total_mass = DNeg(last.prev.total_mass))
        /\ (last.via = "rotate" => last.parts = last.prevParts)

\* C9: calculate_volume returns the signed sum without normalising its
\* sign.  For a mesh of n triangles with finite coordinates of magnitude at
\* most b and a density d >= 0, reversing the winding of every triangle
\* gives a volume within n^2 * b^3 * 2^-45 of the negation of the volume
\* before, with the mass the float product of that volume and d; a cyclic
\* rotation leaves every signed volume within b^3 * 2^-45 of what it was.
\* Where the coordinates are integers of magnitude below 2^16 the negation
\* of volume and mass is exact and the rotation changes nothing.
C9_WindingSign ==
    (Estimated /\ density >= 0) =>
        /\ last.res.total_mass = DMul(last.res.total_volume, Literal(density))
        /\ (last.via = "reverse" =>
                /\ Near(last.res.total_volume, DNeg(last.prev.total_volume),
                        Tolerance(Len(mesh), last.extent))
                /\ (solid.integral =>
                        /\ last.res.total_volume = DNeg(last.prev.total_volume)
                        /\ last.res.total_mass = DNeg(last.prev.total_mass)))
        /\ (last.via = "rotate" =>
                /\ \A i \in 1..Len(mesh) :
                      Near(last.parts[i], last.prevParts[i], Tolerance(1, last.extent))
                /\ (solid.integral => last.parts = last.prevParts))

\* the reversed triangle of tenths: the volume changes sign, and its
\* magnitude changes in the last place
C9_Witness ==
    /\ Estimated
    /\ density = 125
    /\ solid.name = "tenths"
    /\ last.via = "reverse"
    /\ DSign(last.res.total_volume) = 0 - DSign(last.prev.total_volume)
    /\ DSign(last.res.total_volume) # 0
    /\ last.res.total_volume # DNeg(last.prev.total_volume)

-----------------------------------------------------------------------------
(* materialsFor3DPrinting                                                  *)

\* materials_dict: identifier -> 'mass', in hundredths
materials_dict ==
    [id \in 1..18 |->
        <<104, 125, 179, 118, 136, 268, 860, 900, 900, 1360, 1560, 101, 95,
          120, 1026, 786, 441, 120>>[id]]

\* get_material_mass raises ValueError for an identifier not in the table
ValidMaterial(material_identifier) == material_identifier \in DOMAIN materials_dict

get_material_mass(material_identifier) == Literal(materials_dict[material_identifier])

-----------------------------------------------------------------------------
(* Server specification: two /calculate requests handled concurrently by   *)
(* the threaded server, sharing the upload folder.  A file is an inode;     *)
(* the folder maps a filename to its inode, 0 when there is none; an open   *)
(* handle keeps its inode across os.remove.  Every statement of the         *)
(* handler that touches the folder is one step.                             *)

Requests == {1, 2}

Filenames == {"a.stl", "b.stl"}

\* the uploads tried: one triangle; another triangle; a textual file; the
\* first upload cut inside its record
Uploads ==
    { Header(1) \o PackI(1, "little") \o FixRecord(0),
      Header(1) \o PackI(1, "little") \o FixRecord(1),
      Header(2) \o PackI(1, "little") \o FixRecord(0),
      Take(Header(1) \o PackI(1, "little") \o FixRecord(0), 100) }

\* material_id values tried: PLA, and an integer not in the table
MaterialIds == {2, 99}

Response(status, error, volume, mass) ==
    [status |-> status, error |-> error, volume |-> volume, mass |-> mass]

ErrorResponse(status, error) == Response(status, error, DZero, DZero)

NoResponse == ErrorResponse(0, "")

\* a request as it arrives
NewRequest(hasFile, filename, upload, material_id, plotFails) ==
    [pc |-> "start", hasFile |-> hasFile, filename |-> filename, upload |-> upload,
     material_id |-> material_id, plotFails |-> plotFails,
     saved |-> FALSE, fd |-> 0, pos |-> 0, left |-> 0, phase |-> 0, cur |-> << >>,
     triangles |-> << >>, volume |-> DZero, mass |-> DZero,
     response |-> NoResponse]

RequestInputs ==
    { NewRequest(FALSE, "", << >>, 2, FALSE), NewRequest(TRUE, "", << >>, 2, FALSE) }
    \cup { NewRequest(TRUE, fn, up, mid, pf) :
             fn \in Filenames, up \in Uploads, mid \in MaterialIds, pf \in BOOLEAN }

InitServer ==
    /\ req \in [Requests -> RequestInputs]
    /\ req[1].filename # "b.stl"       \* the names are interchangeable
    /\ fs = [dir |-> [fn \in Filenames |-> 0], inode |-> << >>]
    /\ byteorder = "little"
    /\ IdleDecoder
    /\ IdleEstimator

Me(r) == req[r]
Inode(r) == fs.inode[req[r].fd]
Exists(fn) == fs.dir[fn] # 0

\* the request ends with this response
Finish(r, response) ==
    req' = [req EXCEPT ![r].pc = "done", ![r].response = response]

\* an exception leaves the handler: the server answers 500
Raise(r, exception) == Finish(r, ErrorResponse(500, exception))

ServerUnchanged == UNCHANGED <<byteorder, file, utils, log, mesh, density, solid, last>>

\* lines 116-123: the checks before the save
Begin(r) ==
    /\ Me(r).pc = "start"
    /\ IF ~Me(r).hasFile THEN Finish(r, ErrorResponse(400, "No file part"))
       ELSE IF Me(r).filename = "" THEN Finish(r, ErrorResponse(400, "No selected file"))
       ELSE req' = [req EXCEPT ![r].pc = "save"]
    /\ UNCHANGED fs
    /\ ServerUnchanged

\* file.save(file_path), first half: open(file_path, "wb") creates the file
\* or truncates the one that is there
SaveOpen(r) ==
    /\ Me(r).pc = "save"
    /\ LET fn == Me(r).filename
       IN  IF Exists(fn)
           THEN /\ fs' = [fs EXCEPT !.inode[fs.dir[fn]] = << >>]
                /\ req' = [req EXCEPT ![r].pc = "write", ![r].fd = fs.dir[fn]]
           ELSE /\ fs' = [dir |-> [fs.dir EXCEPT ![fn] = Len(fs.inode) + 1],
                          inode |-> Append(fs.inode, << >>)]
                /\ req' = [req EXCEPT ![r].pc = "write", ![r].fd = Len(fs.inode) + 1]
    /\ ServerUnchanged

\* bytes written at offset 0 over the old content
Overlay(bytes, old) ==
    IF Len(bytes) >= Len(old) THEN bytes
    ELSE bytes \o SubSeq(old, Len(bytes) + 1, Len(old))

\* file.save(file_path), second half: the upload is written from offset 0
\* and the handle closed
SaveWrite(r) ==
    /\ Me(r).pc = "write"
    /\ fs' = [fs EXCEPT !.inode[Me(r).fd] = Overlay(Me(r).upload, @)]
    /\ req' = [req EXCEPT ![r].pc = "sniff_open", ![r].saved = TRUE, ![r].fd = 0]
    /\ ServerUnchanged

\* open(file, 'rb') in is_binary or in read_stl
OpenForRead(r, at, next) ==
    /\ Me(r).pc = at
    /\ IF Exists(Me(r).filename)
       THEN req' = [req EXCEPT ![r].pc = next, ![r].fd = fs.dir[Me(r).filename],
                               ![r].pos = 0]
       ELSE Raise(r, "FileNotFoundError")
    /\ UNCHANGED fs
    /\ ServerUnchanged

SniffOpen(r) == OpenForRead(r, "sniff_open", "sniff_read")

\* is_binary: the header is read and tested; a textual file ends read_stl
SniffRead(r) ==
    /\ Me(r).pc = "sniff_read"
    /\ req' = [req EXCEPT ![r].pc = IF is_binary(Inode(r)) THEN "stl_open" ELSE "estimate",
                          ![r].fd = 0]
    /\ UNCHANGED fs
    /\ ServerUnchanged

StlOpen(r) == OpenForRead(r, "stl_open", "count")

\* f.seek(80); length = struct.unpack("@I", f.read(4))[0]
ReadCount(r) ==
    /\ Me(r).pc = "count"
    /\ LET cnt == FRead(Inode(r), HeaderLen, CountLen)
       IN  IF Len(cnt) # CountLen THEN Raise(r, "struct.error")
           ELSE req' = [req EXCEPT
                    ![r].pc = IF UnpackI(cnt, byteorder) = 0 THEN "estimate" ELSE "vec",
                    ![r].left = UnpackI(cnt, byteorder),
                    ![r].pos = HeaderLen + CountLen,
                    ![r].phase = 0, ![r].cur = << >>]
    /\ UNCHANGED fs
    /\ ServerUnchanged

\* one struct.unpack("<3f", f.read(12)) of read_triangle: the normal
\* (phase 0, dropped) or a vertex
ReadVec(r) ==
    /\ Me(r).pc = "vec"
    /\ LET b == FRead(Inode(r), Me(r).pos, VecLen)
       IN  IF Len(b) # VecLen THEN Raise(r, "struct.error")
           ELSE req' = [req EXCEPT
                    ![r].pc = IF Me(r).phase = 3 THEN "attr" ELSE "vec",
                    ![r].phase = @ + 1,
                    ![r].pos = @ + VecLen,
                    ![r].cur = IF Me(r).phase = 0 THEN @ ELSE Append(@, Unpack3f(b))]
    /\ UNCHANGED fs
    /\ ServerUnchanged

\* f.read(2), the return of read_triangle and the append in read_stl
ReadAttr(r) ==
    /\ Me(r).pc = "attr"
    /\ LET at == FRead(Inode(r), Me(r).pos, AttrLen)
       IN  req' = [req EXCEPT
                    ![r].pc = IF Me(r).left = 1 THEN "estimate" ELSE "vec",
                    ![r].fd = IF Me(r).left = 1 THEN 0 ELSE @,
                    ![r].left = @ - 1,
                    ![r].phase = 0, ![r].cur = << >>,
                    ![r].pos = @ + Len(at),
                    ![r].triangles = Append(@, Me(r).cur)]
    /\ UNCHANGED fs
    /\ ServerUnchanged

\* lines 133-144: get_material_mass, calculate_volume, plot_stl
Estimate(r) ==
    /\ Me(r).pc = "estimate"
    /\ IF ~ValidMaterial(Me(r).material_id)
       THEN Finish(r, ErrorResponse(400, "Invalid material identifier"))
       ELSE IF Me(r).plotFails THEN Raise(r, "plot_stl")
       ELSE LET res == calculate_volume(Me(r).triangles,
                                        get_material_mass(Me(r).material_id))
            IN  req' = [req EXCEPT ![r].pc = "remove",
                                   ![r].volume = res.total_volume,
                                   ![r].mass = res.total_mass]
    /\ UNCHANGED fs
    /\ ServerUnchanged

\* os.remove(file_path) and the JSON answer
Remove(r) ==
    /\ Me(r).pc = "remove"
    /\ IF Exists(Me(r).filename)
       THEN /\ fs' = [fs EXCEPT !.dir[Me(r).filename] = 0]
            /\ Finish(r, Response(200, "", Me(r).volume, Me(r).mass))
       ELSE /\ Raise(r, "FileNotFoundError")
            /\ UNCHANGED fs
    /\ ServerUnchanged

NextServer ==
    \E r \in Requests :
        \/ Begin(r)
        \/ SaveOpen(r)
        \/ SaveWrite(r)
        \/ SniffOpen(r)
        \/ SniffRead(r)
        \/ StlOpen(r)
        \/ ReadCount(r)
        \/ ReadVec(r)
        \/ ReadAttr(r)
        \/ Estimate(r)
        \/ Remove(r)

SpecServer == InitServer /\ [][NextServer]_vars

\* the response of a request handled with no other request in flight
Alone(q) ==
    IF ~q.hasFile THEN ErrorResponse(400, "No file part")
    ELSE IF q.filename = "" THEN ErrorResponse(400, "No selected file")
    ELSE LET d == read_stl(<< >>, q.upload, byteorder)
         IN  IF d.outcome.kind # "ok" THEN ErrorResponse(500, d.outcome.kind)
             ELSE IF ~ValidMaterial(q.material_id)
             THEN ErrorResponse(400, "Invalid material identifier")
             ELSE IF q.plotFails THEN ErrorResponse(500, "plot_stl")
             ELSE LET res == calculate_volume(d.triangles, get_material_mass(q.material_id))
                  IN  Response(200, "", res.total_volume, res.total_mass)

Done(r) == req[r].pc = "done"

\* C2: in every terminal state of a /calculate request the file it saved
\* under the upload folder no longer exists, whichever exit path it took.
C2_UploadRemoved ==
    \A r \in Requests :
        (Done(r) /\ req[r].saved) => ~Exists(req[r].filename)

\* C3: under any interleaving of two /calculate requests, each request ends
\* with the response it would produce alone on its own upload and material
\* id, also when both uploads have the same filename.
C3_Isolation ==
    \A r \in Requests : Done(r) => req[r].response = Alone(req[r])

=============================================================================
